---- MODULE Spec2Model ----
(***************************************************************************)
(* A model of src/lib/biojsvisgprofiler.js: the g:Profiler word cloud.     *)
(*                                                                         *)
(* Part 1 models the pure pipeline stages (_collapseClels, _scoreClels,    *)
(* _sortAndCapClels, the default sizers) as operators.  Part 2 models the  *)
(* widget as a state machine: render, the query callback, renderStored,    *)
(* the layout's end, _renderDraw, the onrender handlers and clicks.        *)
(*                                                                         *)
(* Numbers.  A JavaScript number is modelled exactly as a rational n/d     *)
(* (d > 0) or as NaN.  A p-value is 10^-p_exp, so that the default scorer  *)
(* |log10(p_value)| is the integer p_exp.                                  *)
(***************************************************************************)
EXTENDS Integers, Sequences, FiniteSets, TLC

\* ------------------------------------------------------------ bounds
\* Most (text, record) pairs handed to a pure stage.
MaxPairs == 3
\* Largest exponent e of a p-value 10^-e.
MaxExp == 2
\* Largest cap maxN tried.
MaxCap == 2
\* Length of the long lists handed to the sort (past the engine's
\* insertion-sort threshold).
LongLen == 11
\* render and renderStored calls in one run of the widget.
MaxPasses == 2

\* ------------------------------------------------------------ numbers
RECURSIVE GCD(_, _)
GCD(a, b) == IF b = 0 THEN a ELSE GCD(b, a % b)

\* The rational n / d (n >= 0, d > 0), in lowest terms.
Num(n, d) == LET g == GCD(n, d) IN [nan |-> FALSE, n |-> n \div g, d |-> d \div g]
NaN == [nan |-> TRUE, n |-> 0, d |-> 1]

\* a / b for integers a >= 0, b >= 0.  b = 0 only arises with a = 0 (a sum
\* of non-negative scores is 0 only when each is), and 0 / 0 is NaN.
Div(a, b) == IF b = 0 THEN NaN ELSE Num(a, b)

\* JavaScript's <, > on numbers: false as soon as one side is NaN.
Lt(x, y) == ~x.nan /\ ~y.nan /\ x.n * y.d < y.n * x.d
Times(x, y) == IF x.nan \/ y.nan THEN NaN ELSE Num(x.n * y.n, x.d * y.d)
Plus(x, y) == IF x.nan \/ y.nan THEN NaN ELSE Num(x.n * y.d + y.n * x.d, x.d * y.d)

\* ------------------------------------------------------------ helpers
At(a, i) == a[i + 1]
Put(a, i, v) == [a EXCEPT ![i + 1] = v]
Range(s) == {s[i] : i \in DOMAIN s}
Min2(a, b) == IF a < b THEN a ELSE b

RECURSIVE SumSeq(_)
SumSeq(s) == IF s = <<>> THEN 0 ELSE Head(s) + SumSeq(Tail(s))

RECURSIVE Pow(_, _)
Pow(b, e) == IF e = 0 THEN 1 ELSE b * Pow(b, e - 1)

\* ------------------------------------------------------------ data
\* The display strings.  "10" is an array-index key of a JavaScript object,
\* "constructor" a property every object inherits from Object.prototype.
Texts == {"swi4", "swi6", "10", "constructor"}
Domains == {"BP", "MF"}

\* An annotation record: p_value = 10^-p_exp.
Records == [p_exp : 0..MaxExp, domain : Domains]

\* Property names an empty object literal {} inherits (Object.prototype).
ProtoKeys == {"constructor", "toString", "valueOf", "hasOwnProperty", "__proto__"}

\* Keys that are canonical array indices, with their numeric value.
IndexKeys == {"10"}
IndexValue(k) == IF k = "10" THEN 10 ELSE 0

\* ------------------------------------------------------------ _collapseClels
\* The object h of _collapseClels is the sequence of its own properties in
\* insertion order, each <<str, records>>.
OwnIndex(h, str) == {i \in DOMAIN h : h[i][1] = str}
HasOwn(h, str) == OwnIndex(h, str) # {}

\* One turn of the $.each of _collapseClels on the pair v = <<str, t>>.
\* h[str] is the own property when there is one, else what {} inherits:
\* an inherited value is truthy and has no [1], so the push throws.
CollapseStep(acc, v) ==
  LET str == v[1]
      t == v[2]
  IN IF acc.err # "none" THEN acc
     ELSE IF HasOwn(acc.h, str)
       THEN LET i == CHOOSE i \in OwnIndex(acc.h, str) : TRUE
            IN [acc EXCEPT !.h[i] = <<str, Append(acc.h[i][2], t)>>]
     ELSE IF str \in ProtoKeys
       THEN [acc EXCEPT !.err = "TypeError"]
     ELSE [acc EXCEPT !.h = Append(acc.h, <<str, <<t>> >>)]

RECURSIVE CollapseEach(_, _)
CollapseEach(acc, clels) ==
  IF clels = <<>> THEN acc
  ELSE CollapseEach(CollapseStep(acc, Head(clels)), Tail(clels))

\* The index keys of h in ascending numeric order.
RECURSIVE SortedIndexEntries(_)
SortedIndexEntries(es) ==
  IF es = {} THEN <<>>
  ELSE LET m == CHOOSE e \in es : \A f \in es : IndexValue(e[1]) <= IndexValue(f[1])
       IN <<m>> \o SortedIndexEntries(es \ {m})

\* _.values(h): the own enumerable properties in the order of Object.keys,
\* array-index keys first (ascending), then the others as inserted.
Values(h) ==
  SortedIndexEntries({h[i] : i \in {j \in DOMAIN h : h[j][1] \in IndexKeys}})
    \o SelectSeq(h, LAMBDA e : e[1] \notin IndexKeys)

\* _collapseClels(clels): [err, val]; err = "TypeError" when the loop threw.
CollapseClels(clels) ==
  LET acc == CollapseEach([err |-> "none", h |-> <<>>], clels)
  IN [err |-> acc.err, val |-> IF acc.err = "none" THEN Values(acc.h) ELSE <<>>]

\* ------------------------------------------------------------ _scoreClels
\* The default scorer (scorerWord = scorerTerm): the sum of |log10(p_value)|
\* over the element's records.
RECURSIVE ScorerDefault(_)
ScorerDefault(termdata) ==
  IF termdata = <<>> THEN 0
  ELSE Head(termdata).p_exp + ScorerDefault(Tail(termdata))

\* The first $.each of _scoreClels: the raw score of each element, in order.
RawScores(clels) == [i \in DOMAIN clels |-> ScorerDefault(clels[i][2])]

TotalScoreLast(clels) ==
  IF clels = <<>> THEN 0 ELSE RawScores(clels)[Len(clels)]

\* totalScore, accumulated over the elements.
TotalScore(clels) == SumSeq(RawScores(clels))

\* _scoreClels(clels): clelScores, from each element's string to its raw
\* score divided by totalScore.
ScoreClels(clels) ==
  LET raw == RawScores(clels)
      totalScore == TotalScore(clels)
  IN [str \in {clels[i][1] : i \in DOMAIN clels} |->
        \* a later assignment to clelScores[str] overwrites an earlier one
        LET i == CHOOSE i \in DOMAIN clels :
                   clels[i][1] = str /\ \A j \in DOMAIN clels : j > i => clels[j][1] # str
        IN Div(raw[i], totalScore)]

\* ------------------------------------------------------------ _sortAndCapClels
\* The comparator of line 642: it returns the boolean
\* clelScores[a[0]] < clelScores[b[0]], which Array.prototype.sort converts
\* to a number, true to 1 and false to 0.  It never returns a negative
\* number.
Comparefn(sc, a, b) == IF Lt(sc[a[1]], sc[b[1]]) THEN 1 ELSE 0

\* With elements of different scores the comparator is not a consistent
\* comparison function (comparefn(a, b) = 0 does not give comparefn(b, a)
\* = 0), and the order Array.prototype.sort leaves is then up to the
\* engine.  The engines modelled:
\*   "v8legacy"  V8 before 7.0 (Chrome up to 69, Node up to 10): insertion
\*               sort for at most 10 elements, else quicksort;
\*   "v8timsort" V8 from 7.0 on: TimSort (below 64 elements, one run
\*               extended by binary insertion).
Engines == {"v8legacy", "v8timsort"}

\* --- V8 before 7.0: InsertionSort(a, from, to)
RECURSIVE InsInner(_, _, _, _, _)
InsInner(a, sc, from, j, element) ==
  IF j >= from /\ Comparefn(sc, At(a, j), element) > 0
    THEN InsInner(Put(a, j + 1, At(a, j)), sc, from, j - 1, element)
    ELSE Put(a, j + 1, element)

RECURSIVE InsOuter(_, _, _, _, _)
InsOuter(a, sc, from, to, i) ==
  IF i < to
    THEN InsOuter(InsInner(a, sc, from, i - 1, At(a, i)), sc, from, to, i + 1)
    ELSE a

InsertionSort(a, sc, from, to) == InsOuter(a, sc, from, to, from + 1)

\* --- V8 before 7.0: QuickSort(a, from, to)
\* The pivot: the median of the first, the last and the middle element, as
\* the comparator orders them.  Returns <<v0, v1, v2>>, v1 the pivot.
MedianOfThree(sc, x0, x1, x2) ==
  LET c01 == Comparefn(sc, x0, x1)
      v0 == IF c01 > 0 THEN x1 ELSE x0
      v1 == IF c01 > 0 THEN x0 ELSE x1
      c02 == Comparefn(sc, v0, x2)
  IN IF c02 >= 0 THEN <<x2, v0, v1>>
     ELSE IF Comparefn(sc, v1, x2) > 0 THEN <<v0, x2, v1>>
     ELSE <<v0, v1, x2>>

\* The do-while of the partition loop: step high_start down past the
\* elements above the pivot.  brk: high_start met i (break partition).
RECURSIVE ScanHigh(_, _, _, _, _)
ScanHigh(a, sc, pivot, i, high_start) ==
  LET hs == high_start - 1
  IN IF hs = i THEN [hs |-> hs, order |-> 0, brk |-> TRUE]
     ELSE LET order == Comparefn(sc, At(a, hs), pivot)
          IN IF order > 0 THEN ScanHigh(a, sc, pivot, i, hs)
             ELSE [hs |-> hs, order |-> order, brk |-> FALSE]

\* The partition loop, from index i on.
RECURSIVE Partition(_, _, _, _, _, _)
Partition(a, sc, pivot, i, low_end, high_start) ==
  IF i >= high_start THEN [a |-> a, low_end |-> low_end, high_start |-> high_start]
  ELSE
    LET element == At(a, i)
        order == Comparefn(sc, element, pivot)
    IN IF order < 0
         THEN Partition(Put(Put(a, i, At(a, low_end)), low_end, element),
                        sc, pivot, i + 1, low_end + 1, high_start)
       ELSE IF order > 0
         THEN LET s == ScanHigh(a, sc, pivot, i, high_start)
                  b == Put(Put(a, i, At(a, s.hs)), s.hs, element)
              IN IF s.brk
                   THEN [a |-> a, low_end |-> low_end, high_start |-> s.hs]
                 ELSE IF s.order < 0
                   THEN Partition(Put(Put(b, i, At(b, low_end)), low_end, At(b, i)),
                                  sc, pivot, i + 1, low_end + 1, s.hs)
                 ELSE Partition(b, sc, pivot, i + 1, low_end, s.hs)
       ELSE Partition(a, sc, pivot, i + 1, low_end, high_start)

RECURSIVE QuickSort(_, _, _, _)
QuickSort(a, sc, from, to) ==
  IF to - from <= 10 THEN InsertionSort(a, sc, from, to)
  ELSE
    \* to - from is at most 1000 here: the third index is the middle one
    LET third_index == from + ((to - from) \div 2)
        v == MedianOfThree(sc, At(a, from), At(a, to - 1), At(a, third_index))
        pivot == v[2]
        a1 == Put(Put(a, from, v[1]), to - 1, v[3])
        a2 == Put(Put(a1, third_index, At(a1, from + 1)), from + 1, pivot)
        p == Partition(a2, sc, pivot, from + 2, from + 1, to - 1)
    IN IF to - p.high_start < p.low_end - from
         THEN QuickSort(QuickSort(p.a, sc, p.high_start, to), sc, from, p.low_end)
         ELSE QuickSort(QuickSort(p.a, sc, from, p.low_end), sc, p.high_start, to)

\* --- V8 from 7.0 on: TimSort
\* The loop of CountAndMakeRun: the length of the run that starts at 0.
RECURSIVE RunLength(_, _, _, _, _, _)
RunLength(a, sc, high, isDescending, idx, runLength) ==
  IF idx >= high THEN runLength
  ELSE LET order == Comparefn(sc, At(a, idx), At(a, idx - 1))
       IN IF (isDescending /\ order >= 0) \/ (~isDescending /\ order < 0)
            THEN runLength
            ELSE RunLength(a, sc, high, isDescending, idx + 1, runLength + 1)

ReverseRange(a, from, to) ==
  [i \in DOMAIN a |-> IF from < i /\ i <= to THEN a[from + to + 1 - i] ELSE a[i]]

\* The binary search of BinarySort for the place of pivot in [left, right).
RECURSIVE BinarySearch(_, _, _, _, _)
BinarySearch(a, sc, pivot, left, right) ==
  IF left >= right THEN left
  ELSE LET mid == left + ((right - left) \div 2)
       IN IF Comparefn(sc, pivot, At(a, mid)) < 0
            THEN BinarySearch(a, sc, pivot, left, mid)
            ELSE BinarySearch(a, sc, pivot, mid + 1, right)

RECURSIVE BinaryInsertionSort(_, _, _, _)
BinaryInsertionSort(a, sc, start, high) ==
  IF start >= high THEN a
  ELSE LET pivot == At(a, start)
           left == BinarySearch(a, sc, pivot, 0, start)
           moved == [i \in DOMAIN a |->
                       IF i - 1 = left THEN pivot
                       ELSE IF left < i - 1 /\ i - 1 <= start THEN a[i - 1]
                       ELSE a[i]]
       IN BinaryInsertionSort(moved, sc, start + 1, high)

\* ArrayTimSortImpl for fewer than 64 elements: the minimum run length is
\* the length, so the first run is extended over the array, with no merge.
TimSort(a, sc) ==
  LET n == Len(a)
  IN IF n < 2 THEN a
     ELSE LET isDescending == Comparefn(sc, At(a, 1), At(a, 0)) < 0
              run == RunLength(a, sc, n, isDescending, 2, 2)
              b == IF isDescending THEN ReverseRange(a, 0, run) ELSE a
          IN BinaryInsertionSort(b, sc, run, n)

\* clels.sort(comparator) on the given engine.
ArraySort(engine, a, sc) ==
  IF engine = "v8legacy" THEN QuickSort(a, sc, 0, Len(a)) ELSE TimSort(a, sc)

\* _sortAndCapClels(clels, clelScores) with this.maxN = maxN.
SortAndCapClels(engine, maxN, clels, clelScores) ==
  LET sorted == ArraySort(engine, clels, clelScores)
  IN IF maxN # 0 THEN SubSeq(sorted, 1, Min2(maxN, Len(sorted))) ELSE sorted

\* ------------------------------------------------------------ sizes
\* A size is a real number: a rational v (kind "rat"), or log2(y) * v for
\* rationals y >= 1 and v > 0 (kind "log"), compared exactly.
Rat(x) == [kind |-> "rat", v |-> x, y |-> Num(1, 1)]
Log2Of(y) == [kind |-> "log", v |-> Num(1, 1), y |-> y]
RTimes(r, q) == [r EXCEPT !.v = Times(r.v, q)]
RIsNaN(r) == r.v.nan \/ r.y.nan

\* log2(y) * c compared with r, for c > 0 and r > 0: with r / c = P / Q in
\* lowest terms, log2(y) * c < r exactly when y^Q < 2^P.
LogCmp(y, c, r) ==
  LET pn == r.n * c.d
      qn == r.d * c.n
      g == GCD(pn, qn)
      P == pn \div g
      Q == qn \div g
      lhs == Pow(y.n, Q)
      rhs == Pow(2, P) * Pow(y.d, Q)
  IN IF lhs < rhs THEN -1 ELSE IF lhs > rhs THEN 1 ELSE 0

\* JavaScript's x < y on sizes: false when one side is NaN.
RLt(a, b) ==
  IF RIsNaN(a) \/ RIsNaN(b) THEN FALSE
  ELSE IF a.kind = "rat" /\ b.kind = "rat" THEN Lt(a.v, b.v)
  ELSE IF a.kind = "log" /\ b.kind = "rat" THEN LogCmp(a.y, a.v, b.v) < 0
  ELSE IF a.kind = "rat" /\ b.kind = "log" THEN LogCmp(b.y, b.v, a.v) > 0
  ELSE a.v = b.v /\ Lt(a.y, b.y)
RGt(a, b) == RLt(b, a)
\* a <= b as real numbers (neither NaN).
RLeq(a, b) == ~RIsNaN(a) /\ ~RIsNaN(b) /\ ~RLt(b, a)

\* _logBase(2, x) for a rational x >= 1.
LogBase2(x) == IF x.nan THEN Rat(NaN) ELSE Log2Of(x)

CapValueNoUpper(x, minx, maxx) ==
  IF RLt(x, minx) THEN minx ELSE x

\* _capValue(x, minx, maxx)
CapValue(x, minx, maxx) ==
  IF RLt(x, minx) THEN minx ELSE IF RGt(x, maxx) THEN maxx ELSE x

\* scaling = (w + h) / 2 / 600
Scaling(w, h) == Num(w + h, 1200)

\* cap(s, scaling) of _defaultSizeCallbacks
MinS == 12
MaxS(scaling) == Times(Num(72, 1), scaling)
Cap(s, scaling) == CapValue(s, Rat(Num(MinS, 1)), Rat(MaxS(scaling)))

\* cb.sizerWord: _logBase(2, score * 600 + 1) * 12 * scaling, capped
SizerWord(score, scaling) ==
  LET x == IF score.nan THEN NaN ELSE Num(score.n * 600 + score.d, score.d)
      s == RTimes(RTimes(LogBase2(x), Num(12, 1)), scaling)
  IN Cap(s, scaling)

\* cb.sizerTerm: score * 800 * scaling, capped
SizerTerm(score, scaling) ==
  Cap(Rat(Times(Times(score, Num(800, 1)), scaling)), scaling)

\* _getCallback('sizer'): the default of the mode
Sizer(useTerms, score, scaling) ==
  IF useTerms THEN SizerTerm(score, scaling) ELSE SizerWord(score, scaling)

\* ------------------------------------------------------------ colours
\* cb.colorerWord: fill20(++filli), filli starting at 0 with each
\* _getCallback; the i-th call takes the i-th colour of category20.
ColorerWord(i) == [palette |-> "category20", index |-> (i - 1) % 20]

\* cb.colorerTerm: the colour of the records' domain, or of "multiple".
ColorerTerm(termdata) ==
  LET domain == termdata[1].domain
      multiple == \E i \in DOMAIN termdata : termdata[i].domain # domain
  IN [palette |-> "category10",
      index |-> IF multiple THEN 3 ELSE IF domain = "BP" THEN 0
                ELSE IF domain = "MF" THEN 1 ELSE 2]

\* _renderTransformStr(clels, clelScores, scaling)
RenderTransformStr(useTerms, clels, clelScores, scaling) ==
  [i \in DOMAIN clels |->
     [text |-> clels[i][1],
      size |-> Sizer(useTerms, clelScores[clels[i][1]], scaling),
      color |-> IF useTerms THEN ColorerTerm(clels[i][2]) ELSE ColorerWord(i),
      termdata |-> clels[i][2]]]

\* ------------------------------------------------------------ distillers
\* The term names of the query responses, with what String.split(/\s+/)
\* and String.length give for each.
Split(term_name) ==
  CASE term_name = "Swi4, swi6" -> <<"Swi4,", "swi6">>
    [] term_name = "swi4" -> <<"swi4">>
    [] term_name = "swi6" -> <<"swi6">>
    [] term_name = "of constructor" -> <<"of", "constructor">>

StrLength(str) ==
  CASE str = "Swi4, swi6" -> 10
    [] str = "of constructor" -> 14
    [] OTHER -> 4

\* tstr.substr(0, maxLen - 1) followed by the ellipsis character, written
\* "..." here, for the term names longer than maxLen = 5.
Truncate(tstr) ==
  CASE tstr = "Swi4, swi6" -> "Swi4..."
    [] tstr = "of constructor" -> "of c..."

\* normalizeWord: lower-cased unless all upper case, trailing .:,; removed.
NormalizeWord(w) == IF w = "Swi4," THEN "swi4" ELSE w

\* The words of this.stopwords among those of the term names.
StopWords == {"of"}

\* cb.distillerWord (every word of the term names is longer than 1)
DistillerWord(r) ==
  LET ws == Split(r.term_name)
      norm == [i \in DOMAIN ws |-> NormalizeWord(ws[i])]
  IN SelectSeq(norm, LAMBDA w : w \notin StopWords)

\* cb.distillerTerm
DistillerTerm(r, maxTermLen) ==
  IF StrLength(r.term_name) > maxTermLen
    THEN <<Truncate(r.term_name)>>
    ELSE <<r.term_name>>

\* _getCallback('distiller'): the default of the mode
Distiller(useTerms, maxTermLen, r) ==
  IF useTerms THEN DistillerTerm(r, maxTermLen) ELSE DistillerWord(r)

(***************************************************************************)
(* Part 2: the state.                                                      *)
(***************************************************************************)
VARIABLES
  cfg,       \* the attributes set by the constructor (lines 81-104)
  engine,    \* the JavaScript engine the widget runs on
  pending,   \* gp.query calls whose callback has not run yet
  handlers,  \* the listeners registered with _this.on('onrender', ...)
  svgs,      \* the container's svg elements, each the list of its texts
  infobox,   \* the info box: shown or hidden, and the records it lists
  trace,     \* what the handler that ran last did, in order
  started,   \* render and renderStored calls so far
  call       \* the pure stage applied last, with its argument and result

vars == <<cfg, engine, pending, handlers, svgs, infobox, trace, started, call>>

\* The defaults of the constructor (lines 81-95), with a container that
\* matches one element.
Defaults ==
  [container |-> 1, width |-> 300, height |-> 300, maxN |-> 0, maxTermLen |-> 25,
   useTerms |-> FALSE, warnings |-> FALSE, showInfo |-> TRUE]

NoCall == [fn |-> "none", arg |-> <<>>, ret |-> <<>>]

(***************************************************************************)
(* The pure stages, each applied to inputs drawn from bounded sets.        *)
(***************************************************************************)
PureRecords == {r \in Records : r.domain = "BP"}
PairSeqs == UNION {[1..n -> Texts \X PureRecords] : n \in 0..MaxPairs}

\* Container sizes: w + h = 100, 200, 600 (the default), 1200.
Dims == {<<50, 50>>, <<100, 100>>, <<300, 300>>, <<600, 600>>}

\* Scores of [0, 1]: n / d for n up to MaxPairs * MaxExp, over the largest
\* total MaxPairs * MaxExp and over totals of 20, 100 and 600, which give
\* the small scores the sizers do not clamp.
UnitScores ==
  {Num(n, d) : n \in 0..(MaxPairs * MaxExp), d \in {MaxPairs * MaxExp, 20, 100, 600}}

\* Distinct strings for the lists handed to the sort.
SortTexts == <<"w01", "w02", "w03", "w04", "w05", "w06",
               "w07", "w08", "w09", "w10", "w11", "w12">>

\* The collapsed list whose i-th element has the raw score raws[i].
ClelsOfRaws(raws) ==
  [i \in DOMAIN raws |-> <<SortTexts[i], <<[p_exp |-> raws[i], domain |-> "BP"]>> >>]

\* Raw scores of the lists handed to the sort: every short list, and the
\* long lists with at most one score that differs from the others.
ShortRaws == UNION {[1..n -> 0..MaxExp] : n \in 0..MaxPairs}
LongRaws == {r \in [1..LongLen -> 1..2] : Cardinality({i \in 1..LongLen : r[i] = 2}) <= 1}

PureInit ==
  /\ cfg = Defaults
  /\ engine = "v8legacy"
  /\ pending = 0
  /\ handlers = <<>>
  /\ svgs = <<>>
  /\ infobox = [shown |-> FALSE, termdata |-> <<>>]
  /\ trace = <<>>
  /\ started = 0
  /\ call = NoCall

Widget == <<cfg, engine, pending, handlers, svgs, infobox, trace, started>>

CallCollapse ==
  /\ call.fn = "none"
  /\ \E tw \in PairSeqs :
       call' = [fn |-> "collapse", arg |-> tw, ret |-> CollapseClels(tw)]
  /\ UNCHANGED Widget

\* _scoreClels is handed what _collapseClels returned.
CallScore ==
  /\ call.fn = "none"
  /\ \E tw \in PairSeqs :
       LET collapsed == CollapseClels(tw)
       IN /\ collapsed.err = "none"
          /\ call' = [fn |-> "score", arg |-> collapsed.val,
                      ret |-> ScoreClels(collapsed.val)]
  /\ UNCHANGED Widget

\* _sortAndCapClels is handed a collapsed list and its scores.
CallSort ==
  /\ call.fn = "none"
  /\ \E raws \in ShortRaws \cup LongRaws, maxN \in 0..MaxCap, e \in Engines :
       LET clels == ClelsOfRaws(raws)
           clelScores == ScoreClels(clels)
       IN call' = [fn |-> "sort",
                   arg |-> [clels |-> clels, clelScores |-> clelScores,
                            maxN |-> maxN, engine |-> e],
                   ret |-> SortAndCapClels(e, maxN, clels, clelScores)]
  /\ UNCHANGED Widget

CallSizer ==
  /\ call.fn = "none"
  /\ \E score \in UnitScores, wh \in Dims, useTerms \in BOOLEAN :
       call' = [fn |-> "sizer",
                arg |-> [score |-> score, scaling |-> Scaling(wh[1], wh[2]),
                         useTerms |-> useTerms],
                ret |-> Sizer(useTerms, score, Scaling(wh[1], wh[2]))]
  /\ UNCHANGED Widget

Return ==
  /\ call.fn # "none"
  /\ call' = NoCall
  /\ UNCHANGED Widget

PureNext == CallCollapse \/ CallScore \/ CallSort \/ CallSizer \/ Return

PureSpec == PureInit /\ [][PureNext]_vars

(***************************************************************************)
(* The widget.                                                             *)
(***************************************************************************)
\* The constructor's attributes tried: the defaults, and a small term-mode
\* cloud; each with a container selector that matches 0, 1 or 2 elements
\* and with warnings off or on.
Variants ==
  {Defaults,
   [Defaults EXCEPT !.width = 50, !.height = 50, !.maxN = 1, !.maxTermLen = 5,
                    !.useTerms = TRUE, !.showInfo = FALSE]}

Configs ==
  {[v EXCEPT !.container = c, !.warnings = w] :
     v \in Variants, c \in 0..2, w \in BOOLEAN}

\* The records of the query responses.
RecA == [term_name |-> "Swi4, swi6", p_exp |-> 2, domain |-> "BP"]
RecB == [term_name |-> "swi4", p_exp |-> 1, domain |-> "MF"]
RecZ == [term_name |-> "swi6", p_exp |-> 0, domain |-> "BP"]
RecC == [term_name |-> "of constructor", p_exp |-> 1, domain |-> "CC"]

\* The query responses tried: none, one record of two words, records that share a word,
\* a record of p-value 1, a one-word record, and a record with the word "constructor".
Responses == {<<>>, <<RecA>>, <<RecA, RecB>>, <<RecZ>>, <<RecB>>, <<RecC>>}

Init ==
  /\ cfg \in Configs
  /\ engine \in Engines
  /\ pending = 0
  /\ handlers = <<>>
  /\ svgs = <<>>
  /\ infobox = [shown |-> FALSE, termdata |-> <<>>]
  /\ trace = <<>>
  /\ started = 0
  /\ call = NoCall

Ev(name, args) == [ev |-> name, args |-> args]

\* An argument handed to a listener, with what Array.isArray says of it:
\* "object" for a plain object, "array" for an array.
JsObject(x) == [type |-> "object", val |-> x]

\* The loop of renderStored: the pairs [str, r], for each record r of data
\* and each string the distiller returns for r.
RECURSIVE Twords(_)
Twords(data) ==
  IF data = <<>> THEN <<>>
  ELSE LET r == Head(data)
           strs == Distiller(cfg.useTerms, cfg.maxTermLen, r)
       IN [j \in DOMAIN strs |-> <<strs[j], r>>] \o Twords(Tail(data))

\* The texts of every svg of the container: container.find('svg text').
RECURSIVE AllTexts(_)
AllTexts(ss) ==
  IF ss = <<>> THEN {} ELSE {Head(ss)[j].text : j \in DOMAIN Head(ss)} \cup AllTexts(Tail(ss))

\* _renderWarn(clels, clelScores) on the container dom: the strings it
\* reports as not rendered, and whether it prints the summary
\* (pc = parseInt(nnot / n * 100) is not 0; NaN for n = 0).
RenderWarn(clels, clelScores, dom) ==
  LET rendered == AllTexts(dom)
      notRendered == SelectSeq([i \in DOMAIN clels |-> clels[i][1]],
                               LAMBDA str : str \notin rendered)
      n == Len(clels)
      nnot == Len(notRendered)
  IN Ev("_renderWarn",
        [clels |-> clels, clelScores |-> clelScores, notRendered |-> notRendered,
         summary |-> (n # 0 /\ (nnot * 100) \div n # 0)])

\* _this.trigger('onrender'): the event, with no argument, then each
\* registered listener in the order of registration.
TriggerOnrender(hs, dom) ==
  <<Ev("onrender", <<>>)>> \o
    [i \in DOMAIN hs |-> RenderWarn(hs[i].clels, hs[i].clelScores, dom)]

RenderDrawNoTrigger(words, hs, dom) ==
  <<Ev("draw", words)>>

\* _renderDraw(words, scaling): what it does after the layout's end, on
\* the container dom that already holds the new svg.
RenderDraw(words, hs, dom) ==
  <<Ev("draw", words)>> \o TriggerOnrender(hs, dom)

\* The layout (d3.layout.cloud): each word is placed or dropped; the
\* placed words, in the order of the input, are handed to 'end'.
Layouts(words) ==
  {SelectSeq(words, LAMBDA d : d \in keep) : keep \in SUBSET Range(words)}

\* Lines 211-215: with warnings, one more onrender listener, which closes
\* over the pass's clels and clelScores.
HandlersAfterOn(clels, clelScores) ==
  IF cfg.warnings
    THEN Append(handlers, [clels |-> clels, clelScores |-> clelScores])
    ELSE handlers

\* renderStored(data), with _renderCloud, the layout and _renderDraw.
\* Each stage's result is bound once, as the code's local variables are.
RenderStoredBody(first, data) ==
  IF cfg.container # 1
    THEN /\ trace' = <<first, Ev("Error: container", <<>>)>>
         /\ UNCHANGED <<handlers, svgs>>
    ELSE
      \E twords \in {Twords(data)} :
      \E collapsed \in {CollapseClels(twords)} :
        IF collapsed.err # "none"
          THEN /\ trace' = <<first, Ev("_collapseClels", twords),
                             Ev(collapsed.err, <<>>)>>
               /\ UNCHANGED <<handlers, svgs>>
          ELSE
            \E clelScores \in {ScoreClels(collapsed.val)} :
            \E clels \in {SortAndCapClels(engine, cfg.maxN, collapsed.val, clelScores)} :
            \E hs \in {HandlersAfterOn(clels, clelScores)} :
            \E words \in {RenderTransformStr(cfg.useTerms, clels, clelScores,
                                             Scaling(cfg.width, cfg.height))} :
            \E placed \in Layouts(words) :
            \E dom \in {Append(svgs, placed)} :
              /\ handlers' = hs
              /\ svgs' = dom
              /\ trace' = <<first,
                            Ev("_collapseClels", twords),
                            Ev("_scoreClels", collapsed.val),
                            Ev("_sortAndCapClels",
                               [clels |-> clels, clelScores |-> clelScores]),
                            Ev("layout", words),
                            Ev("end", placed)>>
                            \o RenderDraw(placed, hs, dom)

\* render(attrs): gp.query(attrs, callback)
Render ==
  /\ started < MaxPasses
  /\ started' = started + 1
  /\ pending' = pending + 1
  /\ trace' = <<Ev("render", <<>>), Ev("gp.query", <<>>)>>
  /\ UNCHANGED <<cfg, engine, handlers, svgs, infobox, call>>

\* The callback of gp.query: _this.renderStored(data)
QueryCallback ==
  /\ pending > 0
  /\ pending' = pending - 1
  /\ \E data \in Responses : RenderStoredBody(Ev("query callback", data), data)
  /\ UNCHANGED <<cfg, engine, infobox, started, call>>

\* renderStored(data), called by the page
RenderStored ==
  /\ started < MaxPasses
  /\ started' = started + 1
  /\ \E data \in Responses : RenderStoredBody(Ev("renderStored", data), data)
  /\ UNCHANGED <<cfg, engine, pending, infobox, call>>

\* The arguments of _this.trigger('onclick', d, e) of line 340: the datum
\* d of the clicked text (the object _renderTransformStr built, placed by
\* the layout) and the event.
ClickArgs(d, e) == <<JsObject(d), JsObject(e)>>

\* A click on the j-th text of the i-th svg (lines 334-341); d is the
\* datum bound to the text.  With showInfo, _renderInfoBox shows the box
\* and stops the event; without, the event reaches body, whose listener
\* (lines 330-332) hides the box.
Click ==
  \E i \in DOMAIN svgs :
    \E j \in DOMAIN svgs[i] :
      LET d == svgs[i][j]
          e == [type |-> "click", svg |-> i, text |-> j]
      IN /\ infobox' = IF cfg.showInfo
                         THEN [shown |-> TRUE, termdata |-> d.termdata]
                         ELSE [infobox EXCEPT !.shown = FALSE]
         /\ trace' = <<Ev("click", e), Ev("onclick", ClickArgs(d, e))>>
         /\ UNCHANGED <<cfg, engine, pending, handlers, svgs, started, call>>

\* A click elsewhere in the page, once _renderDraw has set body's listener.
BodyClick ==
  /\ svgs # <<>>
  /\ infobox' = [infobox EXCEPT !.shown = FALSE]
  /\ trace' = <<Ev("click", [type |-> "click", svg |-> 0, text |-> 0])>>
  /\ UNCHANGED <<cfg, engine, pending, handlers, svgs, started, call>>

Next == Render \/ QueryCallback \/ RenderStored \/ Click \/ BodyClick

Spec == Init /\ [][Next]_vars

(***************************************************************************)
(* The claims on the pure stages, under PureSpec.                          *)
(***************************************************************************)
TextsOf(pairs) == {pairs[i][1] : i \in DOMAIN pairs}
Occurrences(pairs, text) == Cardinality({i \in DOMAIN pairs : pairs[i][1] = text})

\* C2: for every sequence of (text, record) pairs, _collapseClels returns a
\* list where every distinct input text appears exactly once, no longer
\* than the input, the records of a text as many as its input pairs.
C2_CollapseUniqueAndCounted ==
  call.fn = "collapse" =>
    /\ call.ret.err = "none"
    /\ Len(call.ret.val) <= Len(call.arg)
    /\ \A text \in TextsOf(call.arg) :
         /\ Occurrences(call.ret.val, text) = 1
         /\ \A i \in DOMAIN call.ret.val :
              call.ret.val[i][1] = text =>
                Len(call.ret.val[i][2]) = Occurrences(call.arg, text)

RECURSIVE SumScores(_, _)
SumScores(clels, sc) ==
  IF clels = <<>> THEN Num(0, 1)
  ELSE Plus(sc[Head(clels)[1]], SumScores(Tail(clels), sc))

ScoreOfElem(c) == call.arg.clelScores[c[1]]

\* C5: _sortAndCapClels returns min(maxN, length) elements for maxN > 0,
\* all of them for maxN = 0, in non-increasing order of score.
C5_SortedAndCapped ==
  call.fn = "sort" =>
    /\ Len(call.ret) = IF call.arg.maxN > 0
                         THEN Min2(call.arg.maxN, Len(call.arg.clels))
                         ELSE Len(call.arg.clels)
    /\ \A i, j \in DOMAIN call.ret :
         i < j => ~Lt(ScoreOfElem(call.ret[i]), ScoreOfElem(call.ret[j]))

InputIndex(c) == CHOOSE i \in DOMAIN call.arg.clels : call.arg.clels[i] = c

\* C6: in the output of _sortAndCapClels, two elements of equal score
\* keep the relative order they had in the input.
C6_StableOnTies ==
  call.fn = "sort" =>
    \A i, j \in DOMAIN call.ret :
      (i < j /\ ScoreOfElem(call.ret[i]) = ScoreOfElem(call.ret[j]))
        => InputIndex(call.ret[i]) < InputIndex(call.ret[j])

\* C7: for every score of [0, 1] and every scaling, the default sizers
\* return a size s with 12 <= s <= 72 * scaling.
C7_SizeWithinClamp ==
  call.fn = "sizer" =>
    /\ RLeq(Rat(Num(12, 1)), call.ret)
    /\ RLeq(call.ret, Rat(Times(Num(72, 1), call.arg.scaling)))

\* C7, amended: when 72 * scaling >= 12 (width + height >= 200),
\* 12 <= s <= 72 * scaling; in a smaller container s is 12 (for a size
\* below 12 before the clamp) or 72 * scaling (otherwise).
C7_SizeWithinClampAmended ==
  call.fn = "sizer" =>
    IF Lt(Times(Num(72, 1), call.arg.scaling), Num(12, 1))
      THEN call.ret \in {Rat(Num(12, 1)), Rat(Times(Num(72, 1), call.arg.scaling))}
      ELSE /\ RLeq(Rat(Num(12, 1)), call.ret)
           /\ RLeq(call.ret, Rat(Times(Num(72, 1), call.arg.scaling)))

\* C7's case: a sizer applied in a container so small that 72 * scaling
\* is below 12, returning 72 * scaling.
C7_Witness ==
  /\ call.fn = "sizer"
  /\ Lt(Times(Num(72, 1), call.arg.scaling), Num(12, 1))
  /\ call.ret = Rat(Times(Num(72, 1), call.arg.scaling))

(***************************************************************************)
(* The claims on the widget, under Spec.                                   *)
(***************************************************************************)
Has(name) == \E i \in DOMAIN trace : trace[i].ev = name
Count(name) == Cardinality({i \in DOMAIN trace : trace[i].ev = name})

\* C1: when the container does not resolve to exactly one element,
\* render raises the container error before the query is issued: gp.query
\* is never called.
C1_NoQueryWithoutContainer ==
  cfg.container # 1 => (~Has("gp.query") /\ pending = 0)

\* C4: when the raw scores of all elements sum to zero, the scoring step
\* signals a degenerate-score error and the pass does not go on to sort,
\* lay out or draw, and does not fire onrender.
C4_DegenerateScoreIsFatal ==
  \A i \in DOMAIN trace :
    (trace[i].ev = "_scoreClels" /\ TotalScore(trace[i].args) = 0) =>
      /\ Has("DegenerateScoreError")
      /\ ~Has("_sortAndCapClels") /\ ~Has("layout") /\ ~Has("draw") /\ ~Has("onrender")

\* C8: every click on a placed element fires one onclick event whose first
\* argument is the element's records list and whose second argument is
\* the originating event.
C8_OnclickPayload ==
  \A i \in DOMAIN trace :
    trace[i].ev = "click" /\ trace[i].args.svg # 0 =>
      /\ Count("onclick") = 1
      /\ \A k \in DOMAIN trace :
           trace[k].ev = "onclick" =>
             /\ trace[k].args[1].type = "array"
             /\ trace[k].args[1].val = svgs[trace[i].args.svg][trace[i].args.text].termdata
             /\ trace[k].args[2].val = trace[i].args

\* C9: each completed render pass fires onrender exactly once, with no
\* payload, after the layout has ended and the placed elements have been
\* drawn, and only in a pass that holds its data (the query response, or
\* the data handed to renderStored).
C9_OnrenderOncePerPass ==
  /\ Count("onrender") <= 1
  /\ Has("end") => Has("onrender")
  /\ \A i \in DOMAIN trace :
       trace[i].ev = "onrender" =>
         /\ trace[i].args = <<>>
         /\ trace[1].ev \in {"query callback", "renderStored"}
         /\ \E j, k \in DOMAIN trace :
              /\ j < k /\ k < i
              /\ trace[j].ev = "end"
              /\ trace[k].ev = "draw"
              /\ trace[k].args = trace[j].args
              /\ svgs[Len(svgs)] = trace[j].args

\* C9's case: a pass run by the query callback has drawn a placed word and
\* fired onrender.
C9_Witness ==
  /\ Has("onrender")
  /\ trace[1].ev = "query callback"
  /\ \E k \in DOMAIN trace : trace[k].ev = "draw" /\ trace[k].args # <<>>

\* C10: with warnings enabled, every pass runs _renderWarn exactly once,
\* on the element list and the scores of that pass.
C10_WarnOncePerPass ==
  (cfg.warnings /\ Has("onrender")) =>
    /\ Count("_renderWarn") = 1
    /\ \A i, k \in DOMAIN trace :
         (trace[i].ev = "_renderWarn" /\ trace[k].ev = "_sortAndCapClels") =>
           /\ trace[i].args.clels = trace[k].args.clels
           /\ trace[i].args.clelScores = trace[k].args.clelScores

====
